---------------------------- MODULE Spec2Model ----------------------------
(***************************************************************************)
(* A model of mad-notifier (src/main.py): class AnomalyNotifier, an        *)
(* aiohttp service that receives anomaly events on POST /api/v1/anomalies, *)
(* renders them with one of two Jinja templates and relays them to the     *)
(* Telegram sendMessage endpoint.                                          *)
(*                                                                         *)
(* Text is a sequence of Unicode code points (the module language has no   *)
(* non-ASCII string literals): "a.b" is <<97, 46, 98>>.  A JSON / Python   *)
(* value is a record [k, s, n, tz]: k is its type, s its characters (a     *)
(* str) or its <<Y, M, D, h, m, s>> fields (a datetime), n a number in     *)
(* hundredths (a float) or a UTC offset in minutes (a datetime).           *)
(***************************************************************************)
EXTENDS Integers, Sequences, FiniteSets, TLC

VARIABLES
    http_session,   \* self.http_session: "None", "open" or "closed"
    runner,         \* self.runner: "None", "setup" or "cleaned"
    site,           \* self.site: "None", "created", "listening" or "stopped"
    srv_pc,         \* where start_server / stop_server stand
    req_pc,         \* where the handler of the request in flight stands
    body,           \* the request's body
    response,       \* the HTTP response of handle_anomaly: status and body
    run,            \* what _process_anomaly did for the request
    tpc,            \* text specifications: the step reached
    tin,            \* text specifications: the input (an event or a text)
    tout            \* text specifications: the text produced

vars == <<http_session, runner, site, srv_pc, req_pc, body, response, run,
          tpc, tin, tout>>

(***************************************************************************)
(* Characters and literal texts of the source.                             *)
(***************************************************************************)
BACKSLASH == 92


\* template 'start', literal text 1: '🚨 *Обнаружена аномалия* 🚨\n\n                *Тип:* `'
start_lit_1 ==
    << 128680, 32, 42, 1054, 1073, 1085, 1072, 1088, 1091, 1078, 1077, 1085, 1072, 32,
       1072, 1085, 1086, 1084, 1072, 1083, 1080, 1103, 42, 32, 128680, 10, 10, 32, 32, 32,
       32, 32, 32, 32, 32, 32, 32, 32, 32, 32, 32, 32, 32, 42, 1058, 1080, 1087, 58, 42,
       32, 96 >>

\* template 'start', literal text 2: '`\n                *Метрика:* `'
start_lit_2 ==
    << 96, 10, 32, 32, 32, 32, 32, 32, 32, 32, 32, 32, 32, 32, 32, 32, 32, 32, 42, 1052,
       1077, 1090, 1088, 1080, 1082, 1072, 58, 42, 32, 96 >>

\* template 'start', literal text 3: '`\n                *Время начала:* `'
start_lit_3 ==
    << 96, 10, 32, 32, 32, 32, 32, 32, 32, 32, 32, 32, 32, 32, 32, 32, 32, 32, 42, 1042,
       1088, 1077, 1084, 1103, 32, 1085, 1072, 1095, 1072, 1083, 1072, 58, 42, 32, 96 >>

\* template 'start', literal text 4: '`\n                *Описание:* '
start_lit_4 ==
    << 96, 10, 32, 32, 32, 32, 32, 32, 32, 32, 32, 32, 32, 32, 32, 32, 32, 32, 42, 1054,
       1087, 1080, 1089, 1072, 1085, 1080, 1077, 58, 42, 32 >>

\* template 'start', literal text 5: '\n\n                '
start_lit_5 ==
    << 10, 10, 32, 32, 32, 32, 32, 32, 32, 32, 32, 32, 32, 32, 32, 32, 32, 32 >>

\* template 'start', literal text 6: '*Средний уровень аномальности:* `'
start_lit_6 ==
    << 42, 1057, 1088, 1077, 1076, 1085, 1080, 1081, 32, 1091, 1088, 1086, 1074, 1077,
       1085, 1100, 32, 1072, 1085, 1086, 1084, 1072, 1083, 1100, 1085, 1086, 1089, 1090,
       1080, 58, 42, 32, 96 >>

\* template 'start', literal text 7: '`'
start_lit_7 ==
    << 96 >>

\* template 'end', literal text 1: '✅ *Аномалия завершена* ✅\n\n                *Тип:* `'
end_lit_1 ==
    << 9989, 32, 42, 1040, 1085, 1086, 1084, 1072, 1083, 1080, 1103, 32, 1079, 1072, 1074,
       1077, 1088, 1096, 1077, 1085, 1072, 42, 32, 9989, 10, 10, 32, 32, 32, 32, 32, 32,
       32, 32, 32, 32, 32, 32, 32, 32, 32, 32, 42, 1058, 1080, 1087, 58, 42, 32, 96 >>

\* template 'end', literal text 2: '`\n                *Метрика:* `'
end_lit_2 ==
    << 96, 10, 32, 32, 32, 32, 32, 32, 32, 32, 32, 32, 32, 32, 32, 32, 32, 32, 42, 1052,
       1077, 1090, 1088, 1080, 1082, 1072, 58, 42, 32, 96 >>

\* template 'end', literal text 3: '`\n                *Начало:* `'
end_lit_3 ==
    << 96, 10, 32, 32, 32, 32, 32, 32, 32, 32, 32, 32, 32, 32, 32, 32, 32, 32, 42, 1053,
       1072, 1095, 1072, 1083, 1086, 58, 42, 32, 96 >>

\* template 'end', literal text 4: '`\n                *Конец:* `'
end_lit_4 ==
    << 96, 10, 32, 32, 32, 32, 32, 32, 32, 32, 32, 32, 32, 32, 32, 32, 32, 32, 42, 1050,
       1086, 1085, 1077, 1094, 58, 42, 32, 96 >>

\* template 'end', literal text 5: '`\n                *Длительность:* '
end_lit_5 ==
    << 96, 10, 32, 32, 32, 32, 32, 32, 32, 32, 32, 32, 32, 32, 32, 32, 32, 32, 42, 1044,
       1083, 1080, 1090, 1077, 1083, 1100, 1085, 1086, 1089, 1090, 1100, 58, 42, 32 >>

\* template 'end', literal text 6: '\n\n                '
end_lit_6 ==
    << 10, 10, 32, 32, 32, 32, 32, 32, 32, 32, 32, 32, 32, 32, 32, 32, 32, 32 >>

\* template 'end', literal text 7: '*Средний уровень аномальности:* `'
end_lit_7 ==
    << 42, 1057, 1088, 1077, 1076, 1085, 1080, 1081, 32, 1091, 1088, 1086, 1074, 1077,
       1085, 1100, 32, 1072, 1085, 1086, 1084, 1072, 1083, 1100, 1085, 1086, 1089, 1090,
       1080, 58, 42, 32, 96 >>

\* template 'end', literal text 8: '`'
end_lit_8 ==
    << 96 >>

\* _format_datetime, absent value: 'не указано'
NOT_SPECIFIED ==
    << 1085, 1077, 32, 1091, 1082, 1072, 1079, 1072, 1085, 1086 >>

\* _format_datetime, unparsable string: 'неверный формат времени'
BAD_TIME_FORMAT ==
    << 1085, 1077, 1074, 1077, 1088, 1085, 1099, 1081, 32, 1092, 1086, 1088, 1084, 1072,
       1090, 32, 1074, 1088, 1077, 1084, 1077, 1085, 1080 >>

\* _format_datetime, not a datetime: 'неверный тип времени'
BAD_TIME_TYPE ==
    << 1085, 1077, 1074, 1077, 1088, 1085, 1099, 1081, 32, 1090, 1080, 1087, 32, 1074,
       1088, 1077, 1084, 1077, 1085, 1080 >>

\* _format_datetime, formatting failure: 'ошибка формата времени'
TIME_FORMAT_ERROR ==
    << 1086, 1096, 1080, 1073, 1082, 1072, 32, 1092, 1086, 1088, 1084, 1072, 1090, 1072,
       32, 1074, 1088, 1077, 1084, 1077, 1085, 1080 >>

\* _prepare_telegram_text, marker: '... [сообщение сокращено]'
TRUNCATION_MARKER ==
    << 46, 46, 46, 32, 91, 1089, 1086, 1086, 1073, 1097, 1077, 1085, 1080, 1077, 32, 1089,
       1086, 1082, 1088, 1072, 1097, 1077, 1085, 1086, 93 >>

\* markdown_chars: '_*[]()~`>#+-=|{}.!'
MARKDOWN_CHARS_STR ==
    << 95, 42, 91, 93, 40, 41, 126, 96, 62, 35, 43, 45, 61, 124, 123, 125, 46, 33 >>

\* str(None): 'None'
PY_NONE ==
    << 78, 111, 110, 101 >>

\* strftime literal: ' UTC'
UTC_SUFFIX ==
    << 32, 85, 84, 67 >>

(***************************************************************************)
(* Values: what a key of the JSON body, or of anomaly_data, may hold.      *)
(***************************************************************************)
Absent == [k |-> "absent", s |-> <<>>, n |-> 0, tz |-> "none"]
Null == [k |-> "null", s |-> <<>>, n |-> 0, tz |-> "none"]
Str(chars) == [k |-> "str", s |-> chars, n |-> 0, tz |-> "none"]
Num(hundredths) == [k |-> "num", s |-> <<>>, n |-> hundredths, tz |-> "none"]
DateTime(fields, tz, offset) == [k |-> "datetime", s |-> fields, n |-> offset, tz |-> tz]

\* Python truthiness, as `if not value` and Jinja's {% if %} test it.
Truthy(v) ==
    CASE v.k = "absent" -> FALSE
      [] v.k = "null" -> FALSE
      [] v.k = "str" -> v.s # <<>>
      [] v.k = "num" -> v.n # 0
      [] OTHER -> TRUE

\* str.replace(old, new) for a one-character old.
RECURSIVE Replace(_, _, _)
Replace(chars, old, new) ==
    IF chars = <<>> THEN <<>>
    ELSE (IF Head(chars) = old THEN new ELSE <<Head(chars)>>)
         \o Replace(Tail(chars), old, new)

\* Decimal digits of a natural number, zero-padded to `width` (%02d, %04d).
RECURSIVE Digits(_, _)
Digits(n, width) ==
    IF n < 10 /\ width <= 1 THEN <<48 + n>>
    ELSE Digits(n \div 10, width - 1) \o <<48 + (n % 10)>>

\* "%.2f" % x for a number given in hundredths.
Format2f(hundredths) ==
    Digits(hundredths \div 100, 1) \o <<46>> \o Digits(hundredths % 100, 2)

(***************************************************************************)
(* datetime.fromisoformat, for the strings the model sends: the form       *)
(* YYYY-MM-DDTHH:MM:SS with an optional +HH:MM offset parses, a string     *)
(* that is no date at all raises ValueError (ok = FALSE).                  *)
(***************************************************************************)
IsDigit(c) == c \in 48..57
Dig2(s, i) == (s[i] - 48) * 10 + (s[i + 1] - 48)

DaysInMonth(y, m) ==
    IF m = 2 THEN (IF (y % 4 = 0 /\ y % 100 # 0) \/ y % 400 = 0 THEN 29 ELSE 28)
    ELSE IF m \in {4, 6, 9, 11} THEN 30 ELSE 31

IsoDateTimeShape(s) ==
    /\ Len(s) >= 19
    /\ \A i \in {1, 2, 3, 4, 6, 7, 9, 10, 12, 13, 15, 16, 18, 19} : IsDigit(s[i])
    /\ s[5] = 45 /\ s[8] = 45 /\ s[14] = 58 /\ s[17] = 58
    /\ Dig2(s, 1) * 100 + Dig2(s, 3) >= 1
    /\ Dig2(s, 6) \in 1..12
    /\ Dig2(s, 9) \in 1..DaysInMonth(Dig2(s, 1) * 100 + Dig2(s, 3), Dig2(s, 6))
    /\ Dig2(s, 12) \in 0..23 /\ Dig2(s, 15) \in 0..59 /\ Dig2(s, 18) \in 0..59

IsoOffsetShape(s) ==
    /\ Len(s) = 25
    /\ s[20] \in {43, 45}
    /\ \A i \in {21, 22, 24, 25} : IsDigit(s[i])
    /\ s[23] = 58
    /\ Dig2(s, 21) \in 0..23 /\ Dig2(s, 24) \in 0..59

IsoFields(s) ==
    <<Dig2(s, 1) * 100 + Dig2(s, 3), Dig2(s, 6), Dig2(s, 9),
      Dig2(s, 12), Dig2(s, 15), Dig2(s, 18)>>

fromisoformat(s) ==
    IF ~IsoDateTimeShape(s) THEN [ok |-> FALSE, v |-> Absent]
    ELSE IF Len(s) = 19 THEN [ok |-> TRUE, v |-> DateTime(IsoFields(s), "naive", 0)]
    ELSE IF IsoOffsetShape(s)
         THEN [ok |-> TRUE,
               v |-> DateTime(IsoFields(s), "aware",
                              (IF s[20] = 45 THEN -1 ELSE 1)
                              * (Dig2(s, 21) * 60 + Dig2(s, 24)))]
    ELSE [ok |-> FALSE, v |-> Absent]

(***************************************************************************)
(* value.astimezone(timezone.utc): the wall clock moved by the offset; a   *)
(* naive value has been given tzinfo = UTC first (offset 0).  A result     *)
(* outside the years 1..9999 raises OverflowError (ok = FALSE).            *)
(***************************************************************************)
ShiftDay(y, m, d, by) ==
    IF by = 1
    THEN (IF d < DaysInMonth(y, m) THEN <<y, m, d + 1>>
          ELSE IF m < 12 THEN <<y, m + 1, 1>> ELSE <<y + 1, 1, 1>>)
    ELSE IF by = -1
    THEN (IF d > 1 THEN <<y, m, d - 1>>
          ELSE IF m > 1 THEN <<y, m - 1, DaysInMonth(y, m - 1)>> ELSE <<y - 1, 12, 31>>)
    ELSE <<y, m, d>>

astimezone_utc(dt) ==
    LET f == dt.s
        total == f[4] * 60 + f[5] - (IF dt.tz = "naive" THEN 0 ELSE dt.n)
        by == IF total < 0 THEN -1 ELSE IF total >= 1440 THEN 1 ELSE 0
        mins == total - by * 1440
        date == ShiftDay(f[1], f[2], f[3], by)
    IN  [ok |-> date[1] \in 1..9999,
         f |-> <<date[1], date[2], date[3], mins \div 60, mins % 60, f[6]>>]

\* strftime('%Y\-%m\-%d %H:%M:%S UTC'): the backslashes of the format are
\* ordinary characters and are copied to the result.
strftime(f) ==
    Digits(f[1], 4) \o <<BACKSLASH, 45>> \o Digits(f[2], 2) \o <<BACKSLASH, 45>>
    \o Digits(f[3], 2) \o <<32>> \o Digits(f[4], 2) \o <<58>> \o Digits(f[5], 2)
    \o <<58>> \o Digits(f[6], 2) \o UTC_SUFFIX

\* dt_str.replace(".", "\.").replace("-", "\-").replace("(", "\(").replace(")", "\)")
escape_datetime(dt_str) ==
    Replace(Replace(Replace(Replace(dt_str, 46, <<BACKSLASH, 46>>),
                            45, <<BACKSLASH, 45>>),
                    40, <<BACKSLASH, 40>>),
            41, <<BACKSLASH, 41>>)

\* "+00:00"
UTC_OFFSET == <<43, 48, 48, 58, 48, 48>>

\* AnomalyNotifier._format_datetime, the Jinja filter datetimeformat.
format_datetime(value) ==
    IF ~Truthy(value) THEN NOT_SPECIFIED
    ELSE LET parsed ==
                 IF value.k = "str"
                 THEN fromisoformat(IF value.s[Len(value.s)] = 90
                                    THEN SubSeq(value.s, 1, Len(value.s) - 1) \o UTC_OFFSET
                                    ELSE value.s)
                 ELSE [ok |-> TRUE, v |-> value]
         IN  IF ~parsed.ok THEN BAD_TIME_FORMAT
             ELSE IF parsed.v.k # "datetime" THEN BAD_TIME_TYPE
             ELSE LET utc == astimezone_utc(parsed.v)
                  IN  IF ~utc.ok THEN TIME_FORMAT_ERROR
                      ELSE escape_datetime(strftime(utc.f))

(***************************************************************************)
(* AnomalyNotifier._prepare_telegram_text.                                 *)
(***************************************************************************)
markdown_chars == {MARKDOWN_CHARS_STR[i] : i \in DOMAIN MARKDOWN_CHARS_STR}

\* The characters str.strip() removes (str.isspace).
Whitespace ==
    (9..13) \cup (28..32) \cup {133, 160, 5760} \cup (8192..8202)
    \cup {8232, 8233, 8239, 8287, 12288}

IsBlank(text) == \A i \in DOMAIN text : text[i] \in Whitespace

\* ''.join(f'\\{char}' if char in markdown_chars else char for char in text),
\* over text[lo..hi]; the halves are joined so that the depth of the
\* evaluation stays logarithmic in the length.
RECURSIVE EscapeRange(_, _, _)
EscapeRange(text, lo, hi) ==
    IF lo > hi THEN <<>>
    ELSE IF lo = hi
    THEN (IF text[lo] \in markdown_chars THEN <<BACKSLASH, text[lo]>> ELSE <<text[lo]>>)
    ELSE LET mid == (lo + hi) \div 2
         IN  EscapeRange(text, lo, mid) \o EscapeRange(text, mid + 1, hi)

escaped_text(text) == EscapeRange(text, 1, Len(text))

TELEGRAM_LIMIT == 4096
TRUNCATED_LENGTH == 4000

\* As _prepare_telegram_text, cutting at the limit itself.
prepare_telegram_text_cut_at_limit(text) ==
    LET escaped == escaped_text(text)
    IN  IF IsBlank(text) THEN <<>>
        ELSE IF Len(escaped) > TELEGRAM_LIMIT
        THEN SubSeq(escaped, 1, TELEGRAM_LIMIT) \o TRUNCATION_MARKER
        ELSE escaped

prepare_telegram_text(text) ==
    LET escaped == escaped_text(text)
    IN  IF IsBlank(text) THEN <<>>
        ELSE IF Len(escaped) > TELEGRAM_LIMIT
        THEN SubSeq(escaped, 1, TRUNCATED_LENGTH) \o TRUNCATION_MARKER
        ELSE escaped

(***************************************************************************)
(* The two Jinja templates of _init_templates and their rendering.         *)
(***************************************************************************)
\* {{ x }}: an undefined name prints nothing, None prints "None".
JinjaStr(v) ==
    CASE v.k = "str" -> v.s
      [] v.k = "null" -> PY_NONE
      [] OTHER -> <<>>

\* {% if average_anom_score %}lit `{{ "%.2f"|format(average_anom_score) }}`{% endif %}
\* "%.2f" % x raises TypeError for an x that is not a number.
ScoreLine(before, after, score) ==
    IF ~Truthy(score) THEN [ok |-> TRUE, text |-> <<>>]
    ELSE IF score.k # "num" THEN [ok |-> FALSE, text |-> <<>>]
    ELSE [ok |-> TRUE, text |-> before \o Format2f(score.n) \o after]

start_template(d) ==
    LET score == ScoreLine(start_lit_6, start_lit_7, d.average_anom_score)
    IN  [ok |-> score.ok,
         text |-> start_lit_1 \o JinjaStr(d.anomaly_type)
                  \o start_lit_2 \o JinjaStr(d.metric_name)
                  \o start_lit_3 \o format_datetime(d.start_time)
                  \o start_lit_4 \o JinjaStr(d.description)
                  \o start_lit_5 \o score.text]

end_template(d) ==
    LET score == ScoreLine(end_lit_7, end_lit_8, d.average_anom_score)
    IN  [ok |-> score.ok,
         text |-> end_lit_1 \o JinjaStr(d.anomaly_type)
                  \o end_lit_2 \o JinjaStr(d.metric_name)
                  \o end_lit_3 \o format_datetime(d.start_time)
                  \o end_lit_4 \o format_datetime(d.end_time)
                  \o end_lit_5 \o JinjaStr(d.duration)
                  \o end_lit_6 \o score.text]

\* self.templates[template_type].render(**anomaly_data)
render(template_type, d) ==
    IF template_type = "start" THEN start_template(d) ELSE end_template(d)

(***************************************************************************)
(* The dispatcher and the pipeline of one request.                         *)
(***************************************************************************)
\* The attributes __init__ (with _init_templates) assigns to self.
InstanceAttributes ==
    {"jinja_env", "port", "debug", "bot_token", "chat_id", "templates", "app",
     "http_session", "runner", "site"}

\* _validate_config: the constructor raises unless both are set.
bot_token == TRUE
chat_id == TRUE

\* What the messaging endpoint answers to a POST.
Replies == {"ok", "non_200", "ok_false", "client_error"}

NoSend == [called |-> FALSE, sent |-> FALSE, posts |-> 0, posted |-> <<>>, log |-> "none"]

\* AnomalyNotifier._send_telegram_message: what it returns (sent), the POSTs
\* it issued with the text of the last one, and the branch that logged.
\* Line 201 reads self.config, which no code assigns: AttributeError, caught
\* by `except Exception` at line 234.
send_telegram_message(text, session, reply) ==
    IF "config" \notin InstanceAttributes
    THEN [NoSend EXCEPT !.called = TRUE, !.log = "unexpected_error"]
    ELSE IF ~bot_token \/ ~chat_id
    THEN [NoSend EXCEPT !.called = TRUE, !.log = "not_configured"]
    ELSE IF prepare_telegram_text(text) = <<>>
    THEN [NoSend EXCEPT !.called = TRUE, !.log = "empty_message"]
    ELSE IF session # "open"
    THEN [NoSend EXCEPT !.called = TRUE, !.log = "unexpected_error"]
    ELSE [called |-> TRUE,
          sent |-> reply = "ok",
          posts |-> 1,
          posted |-> prepare_telegram_text(text),
          log |-> CASE reply = "ok" -> "sent"
                    [] reply = "client_error" -> "network_error"
                    [] OTHER -> "telegram_api_error"]

NoRun ==
    [called |-> FALSE, raised |-> "none", rendered |-> FALSE, template_type |-> "none",
     message |-> <<>>, send |-> NoSend, log |-> "none"]

\* 'start'
START == <<115, 116, 97, 114, 116>>

\* anomaly_data[key] = datetime.fromisoformat(anomaly_data[key].replace('Z', '+00:00'))
\* when the value is a str.
parse_time(v) ==
    IF v.k = "str" THEN fromisoformat(Replace(v.s, 90, UTC_OFFSET))
    ELSE [ok |-> TRUE, v |-> v]

\* The body of the try block of _process_anomaly; raised names the exception
\* that leaves it.
process_anomaly_body(anomaly_data, session, reply) ==
    LET start_time == parse_time(anomaly_data.start_time)
        end_time == parse_time(anomaly_data.end_time)
        data == [anomaly_data EXCEPT !.start_time = start_time.v,
                                     !.end_time = end_time.v]
        template_type == IF anomaly_data.action = Str(START) THEN "start" ELSE "end"
        message == render(template_type, data)
    IN  IF ~start_time.ok \/ ~end_time.ok
        THEN [NoRun EXCEPT !.called = TRUE, !.raised = "ValueError"]
        ELSE IF ~message.ok
        THEN [NoRun EXCEPT !.called = TRUE, !.raised = "TypeError"]
        ELSE [called |-> TRUE, raised |-> "none", rendered |-> TRUE,
              template_type |-> template_type, message |-> message.text,
              send |-> send_telegram_message(message.text, session, reply),
              log |-> "none"]

\* As _process_anomaly, without its `except Exception`.
process_anomaly_no_catch(anomaly_data, session, reply) ==
    process_anomaly_body(anomaly_data, session, reply)

\* AnomalyNotifier._process_anomaly: `except Exception` logs what the body
\* raised and returns.
process_anomaly(anomaly_data, session, reply) ==
    LET r == process_anomaly_body(anomaly_data, session, reply)
    IN  IF r.raised # "none" THEN [r EXCEPT !.raised = "none", !.log = "process_error"]
        ELSE r

\* As required_fields, without its last entry.
required_fields_short == <<"action", "id", "anomaly_type">>

required_fields == <<"action", "id", "anomaly_type", "metric_name">>

\* `field not in data`, for the fields in the order of the list.
MissingFields(data) ==
    {i \in DOMAIN required_fields : data[required_fields[i]].k = "absent"}

FirstMissing(data) ==
    required_fields[CHOOSE i \in MissingFields(data) :
                        \A j \in MissingFields(data) : i <= j]

Reply(status, key, value) == [status |-> status, key |-> key, value |-> value]

\* What handle_anomaly answers and what the pipeline did, once the body has
\* been read: request.json() raises JSONDecodeError for a body that is not
\* JSON; `field not in data` raises TypeError for a JSON number.
handle_result(b, session, reply) ==
    IF b.kind = "invalid_json"
    THEN [response |-> Reply(400, "error", "Invalid JSON"), run |-> NoRun]
    ELSE IF b.kind = "number"
    THEN [response |-> Reply(500, "error", "Internal server error"), run |-> NoRun]
    ELSE IF MissingFields(b.data) # {}
    THEN [response |-> Reply(400, "error", FirstMissing(b.data)), run |-> NoRun]
    ELSE LET r == process_anomaly(b.data, session, reply)
         IN  [response |-> CASE r.raised = "none" -> Reply(200, "status", "success")
                             [] r.raised = "ValueError" -> Reply(400, "error", "ValueError")
                             [] OTHER -> Reply(500, "error", "Internal server error"),
              run |-> r]

(***************************************************************************)
(* Request bodies.                                                         *)
(***************************************************************************)
\* "", 'end', 'a1', 'cpu_spike', 'node.load', 'CPU load-avg', 'high'
EMPTY == <<>>
END == <<101, 110, 100>>
ID_A1 == <<97, 49>>
CPU_SPIKE == <<99, 112, 117, 95, 115, 112, 105, 107, 101>>
NODE_LOAD == <<110, 111, 100, 101, 46, 108, 111, 97, 100>>
DESCRIPTION == <<67, 80, 85, 32, 108, 111, 97, 100, 45, 97, 118, 103>>
HIGH == <<104, 105, 103, 104>>
\* '2024-01-15T10:30:00Z', '2024-01-15T11:00:00', 'not-a-date'
TIME_Z ==
    <<50, 48, 50, 52, 45, 48, 49, 45, 49, 53, 84, 49, 48, 58, 51, 48, 58, 48, 48, 90>>
TIME_NAIVE ==
    <<50, 48, 50, 52, 45, 48, 49, 45, 49, 53, 84, 49, 49, 58, 48, 48, 58, 48, 48>>
NOT_A_DATE == <<110, 111, 116, 45, 97, 45, 100, 97, 116, 101>>

NoData ==
    [action |-> Absent, id |-> Absent, anomaly_type |-> Absent, metric_name |-> Absent,
     description |-> Absent, start_time |-> Absent, end_time |-> Absent,
     average_anom_score |-> Absent, duration |-> Absent]

\* The JSON objects a caller may send: every key absent, empty or set.  An
\* AnomalyEvent has no duration key, and no line of the code adds one.
Events ==
    [action : {Absent, Null, Str(EMPTY), Str(START), Str(END)},
     id : {Absent, Str(EMPTY), Str(ID_A1)},
     anomaly_type : {Absent, Str(EMPTY), Str(CPU_SPIKE)},
     metric_name : {Absent, Str(EMPTY), Str(NODE_LOAD)},
     description : {Absent, Str(DESCRIPTION)},
     start_time : {Absent, Str(TIME_Z), Str(NOT_A_DATE)},
     end_time : {Absent, Str(TIME_NAIVE), Str(NOT_A_DATE)},
     average_anom_score : {Absent, Num(0), Num(250), Str(HIGH)},
     duration : {Absent}]

Bodies ==
    {[kind |-> "invalid_json", data |-> NoData], [kind |-> "number", data |-> NoData]}
    \cup {[kind |-> "object", data |-> e] : e \in Events}

NoBody == [kind |-> "none", data |-> NoData]
NoResponse == Reply(0, "none", "none")

(***************************************************************************)
(* The service: start_server, the handler of POST /api/v1/anomalies and    *)
(* stop_server.  Each action runs a coroutine from one await to the next.  *)
(* Handlers share nothing but the read-only templates and the session, so  *)
(* one request in flight at a time stands for all of them.                 *)
(***************************************************************************)
TextIdle == tpc = "none" /\ tin = <<>> /\ tout = <<>>

Init ==
    /\ http_session = "None"
    /\ runner = "None"
    /\ site = "None"
    /\ srv_pc = "constructed"
    /\ req_pc = "idle"
    /\ body = NoBody
    /\ response = NoResponse
    /\ run = NoRun
    /\ TextIdle

\* start_server, lines 264-266: the session and the runner are created, and
\* the coroutine awaits runner.setup().
start_server ==
    /\ srv_pc = "constructed"
    /\ http_session' = "open"
    /\ runner' = "created"
    /\ srv_pc' = "start_266"
    /\ UNCHANGED <<site, req_pc, body, response, run, tpc, tin, tout>>

\* start_server, lines 266-269: the runner is set up, the site is created,
\* and the coroutine awaits site.start().
start_server_site ==
    /\ srv_pc = "start_266"
    /\ runner' = "setup"
    /\ site' = "created"
    /\ srv_pc' = "start_269"
    /\ UNCHANGED <<http_session, req_pc, body, response, run, tpc, tin, tout>>

\* start_server, lines 269-271: the site listens.
start_server_done ==
    /\ srv_pc = "start_269"
    /\ site' = "listening"
    /\ srv_pc' = "running"
    /\ UNCHANGED <<http_session, runner, req_pc, body, response, run, tpc, tin, tout>>

\* A request reaches the listening site; handle_anomaly awaits request.json().
request_arrives ==
    /\ site = "listening"
    /\ req_pc = "idle"
    /\ \E b \in Bodies : body' = b
    /\ req_pc' = "reading"
    /\ UNCHANGED <<http_session, runner, site, srv_pc, response, run, tpc, tin, tout>>

\* handle_anomaly, from the body read to the response: no await on the way
\* suspends before the POST of _send_telegram_message.
handle_anomaly ==
    /\ req_pc = "reading"
    /\ \E reply \in Replies :
          LET res == handle_result(body, http_session, reply)
          IN  response' = res.response /\ run' = res.run
    /\ req_pc' = "responded"
    /\ UNCHANGED <<http_session, runner, site, srv_pc, body, tpc, tin, tout>>

\* The response is written and the request is over.
request_done ==
    /\ req_pc = "responded"
    /\ req_pc' = "idle"
    /\ body' = NoBody
    /\ response' = NoResponse
    /\ run' = NoRun
    /\ UNCHANGED <<http_session, runner, site, srv_pc, tpc, tin, tout>>

\* stop_server, lines 275-276.  main() calls it from its finally block: once
\* the service runs, or at once when start_server did not run at all (main
\* passes start_server a keyword `port` its signature does not take, and the
\* TypeError leads straight to the finally block).
stop_server ==
    /\ srv_pc \in {"constructed", "running"}
    /\ http_session' = (IF http_session # "None" THEN "closed" ELSE http_session)
    /\ srv_pc' = "stop_277"
    /\ UNCHANGED <<runner, site, req_pc, body, response, run, tpc, tin, tout>>

\* stop_server, lines 277-278.
stop_server_site ==
    /\ srv_pc = "stop_277"
    /\ site' = (IF site # "None" THEN "stopped" ELSE site)
    /\ srv_pc' = "stop_279"
    /\ UNCHANGED <<http_session, runner, req_pc, body, response, run, tpc, tin, tout>>

\* stop_server, lines 279-281.
stop_server_cleanup ==
    /\ srv_pc = "stop_279"
    /\ runner' = (IF runner # "None" THEN "cleaned" ELSE runner)
    /\ srv_pc' = "stopped"
    /\ UNCHANGED <<http_session, site, req_pc, body, response, run, tpc, tin, tout>>

Next ==
    \/ start_server
    \/ start_server_site
    \/ start_server_done
    \/ request_arrives
    \/ handle_anomaly
    \/ request_done
    \/ stop_server
    \/ stop_server_site
    \/ stop_server_cleanup

Spec == Init /\ [][Next]_vars

(***************************************************************************)
(* The text functions on their own.  SpecPipeline runs the text stages of  *)
(* one valid start event: the body of _process_anomaly renders it, then    *)
(* _prepare_telegram_text escapes the rendered message.  SpecPrepare       *)
(* applies _prepare_telegram_text to texts around the length limit.        *)
(***************************************************************************)
ServerIdle ==
    /\ http_session = "None"
    /\ runner = "None"
    /\ site = "None"
    /\ srv_pc = "constructed"
    /\ req_pc = "idle"
    /\ body = NoBody
    /\ response = NoResponse
    /\ run = NoRun

\* '2024-02-29T23:59:59+00:00', 'disk-io', 'latency'
TIME_OFFSET ==
    <<50, 48, 50, 52, 45, 48, 50, 45, 50, 57, 84, 50, 51, 58, 53, 57, 58, 53, 57,
      43, 48, 48, 58, 48, 48>>
DISK_IO == <<100, 105, 115, 107, 45, 105, 111>>
LATENCY == <<108, 97, 116, 101, 110, 99, 121>>

\* Valid start events: the four required keys set, every timestamp parsable.
StartEvents ==
    [action : {Str(START)},
     id : {Str(ID_A1)},
     anomaly_type : {Str(CPU_SPIKE), Str(DISK_IO), Str(LATENCY)},
     metric_name : {Str(NODE_LOAD), Str(LATENCY)},
     description : {Absent, Str(DESCRIPTION), Str(LATENCY)},
     start_time : {Absent, Str(TIME_Z), Str(TIME_NAIVE), Str(TIME_OFFSET)},
     end_time : {Absent},
     average_anom_score : {Absent, Num(0), Num(250)},
     duration : {Absent}]

PipelineInit ==
    /\ ServerIdle
    /\ tpc = "event"
    /\ tin \in StartEvents
    /\ tout = <<>>

\* _process_anomaly, lines 242-253: the timestamps are parsed and the
\* template is rendered.
pipeline_render ==
    /\ tpc = "event"
    /\ process_anomaly_body(tin, "open", "ok").rendered
    /\ tout' = process_anomaly_body(tin, "open", "ok").message
    /\ tpc' = "rendered"
    /\ UNCHANGED <<http_session, runner, site, srv_pc, req_pc, body, response, run, tin>>

\* _send_telegram_message, line 208: safe_text = self._prepare_telegram_text(text)
pipeline_prepare ==
    /\ tpc = "rendered"
    /\ tout' = prepare_telegram_text(tout)
    /\ tpc' = "prepared"
    /\ UNCHANGED <<http_session, runner, site, srv_pc, req_pc, body, response, run, tin>>

PipelineNext == pipeline_render \/ pipeline_prepare

SpecPipeline == PipelineInit /\ [][PipelineNext]_vars

\* The longest free part of a text given to _prepare_telegram_text.
MaxShort == 2

\* The characters of the free part: a letter, a reserved character, a blank.
TextChars == {97, 46, 32}

ShortTexts == UNION {[1..n -> TextChars] : n \in 0..MaxShort}

\* n copies of the character c.
Repeat(c, n) == [i \in 1..n |-> c]

\* Lengths of the repeated part that put the escaped text on both sides of
\* the limit, for a repeated letter and for a repeated reserved character.
PadLengths ==
    {0} \cup ((TELEGRAM_LIMIT \div 2 - 2)..(TELEGRAM_LIMIT \div 2 + 1))
    \cup ((TELEGRAM_LIMIT - 3)..(TELEGRAM_LIMIT + 1))

Texts ==
    {short \o Repeat(c, n) : short \in ShortTexts, c \in {97, 46}, n \in PadLengths}

PrepareInit ==
    /\ ServerIdle
    /\ tpc = "text"
    /\ tin \in Texts
    /\ tout = <<>>

\* One call of _prepare_telegram_text.
prepare_text ==
    /\ tpc = "text"
    /\ tout' = prepare_telegram_text(tin)
    /\ tpc' = "prepared"
    /\ UNCHANGED <<http_session, runner, site, srv_pc, req_pc, body, response, run, tin>>

PrepareNext == prepare_text

SpecPrepare == PrepareInit /\ [][PrepareNext]_vars

(***************************************************************************)
(* The properties.                                                          *)
(***************************************************************************)
ClaimFields == {"action", "id", "anomaly_type", "metric_name"}

Responded == req_pc = "responded" /\ body.kind = "object"

AllPresent == \A f \in ClaimFields : body.data[f].k # "absent"

\* The four required keys hold non-empty strings: the event is not one of
\* those C5 is about.
WellFormed == \A f \in ClaimFields : body.data[f].k = "str" /\ body.data[f].s # <<>>

Unparsable(v) == v.k = "str" /\ ~fromisoformat(Replace(v.s, 90, UTC_OFFSET)).ok

\* sub occurs in text.
Contains(text, sub) ==
    \E i \in 1..(Len(text) - Len(sub) + 1) :
        text[i] = sub[1] /\ SubSeq(text, i, i + Len(sub) - 1) = sub

\* C1: a request whose JSON object lacks one of action, id, anomaly_type,
\* metric_name is answered 400, and neither _process_anomaly nor
\* _send_telegram_message runs for it: no POST is issued.
C1_MissingFieldRejected ==
    (Responded /\ ~AllPresent)
        => /\ response.status = 400
           /\ ~run.called
           /\ ~run.send.called
           /\ run.send.posts = 0

C1_Witness ==
    /\ Responded
    /\ body.data.metric_name = Absent
    /\ \A f \in ClaimFields \ {"metric_name"} : Truthy(body.data[f])
    /\ response = Reply(400, "error", "metric_name")

\* C2: a request whose body holds all four required keys is answered 200
\* {"status": "success"}, whatever fails in normalization, rendering or
\* dispatch.
C2_ValidatedAlways200 ==
    (Responded /\ AllPresent) => response = Reply(200, "status", "success")

C2_Witness ==
    /\ Responded
    /\ AllPresent
    /\ Unparsable(body.data.start_time)
    /\ run.log = "process_error"
    /\ response.status = 200

\* C3: a validated event that renders to non-blank text, with bot token and
\* chat id set, gets exactly one POST to the messaging endpoint.
C3_ExactlyOnePost ==
    (Responded /\ WellFormed /\ run.rendered /\ ~IsBlank(run.message)
     /\ bot_token /\ chat_id)
        => run.send.posts = 1

\* C4: an unparsable start_time or end_time does not abort the pipeline: the
\* message is still rendered and handed to the dispatcher, and the answer
\* is 200.
C4_BadTimestampStillDispatched ==
    (Responded /\ WellFormed
     /\ (Unparsable(body.data.start_time) \/ Unparsable(body.data.end_time))
     /\ body.data.average_anom_score.k # "str")
        => /\ run.rendered
           /\ run.send.called
           /\ response.status = 200

\* C5: an event in which a required key is present but empty (empty string
\* or null) is answered 400 and is neither rendered nor dispatched.
C5_EmptyFieldRejected ==
    (Responded /\ \E f \in ClaimFields : body.data[f] \in {Null, Str(EMPTY)})
        => /\ response.status = 400
           /\ ~run.rendered
           /\ ~run.send.called

\* C6: in the text a pipeline run produces for a valid start event, every
\* reserved markup character is preceded by exactly one backslash.
C6_EscapedExactlyOnce ==
    tpc = "prepared"
        => \A i \in DOMAIN tout :
               tout[i] \in markdown_chars
                   => /\ i > 1
                      /\ tout[i - 1] = BACKSLASH
                      /\ (i > 2 => tout[i - 2] # BACKSLASH)

\* C7: a non-blank text whose escaped form is longer than 4096 characters
\* comes back as the first 4000 characters of the escaped form followed by
\* the truncation marker, at most 4096 characters in all; an escaped form of
\* at most 4096 characters comes back whole.
C7_TruncatesEscapedText ==
    (tpc = "prepared" /\ ~IsBlank(tin))
        => IF Len(escaped_text(tin)) > 4096
           THEN /\ Len(tout) = 4000 + Len(TRUNCATION_MARKER)
                /\ Len(tout) <= 4096
                /\ SubSeq(tout, 1, 4000) = SubSeq(escaped_text(tin), 1, 4000)
                /\ SubSeq(tout, 4001, Len(tout)) = TRUNCATION_MARKER
           ELSE tout = escaped_text(tin)

C7_Witness ==
    /\ tpc = "prepared"
    /\ Len(escaped_text(tin)) > 4096
    /\ Len(tout) = 4025
    /\ tout[4000] = BACKSLASH
    /\ tout[4001] = 46

\* C8: the rendered message holds the score line exactly when the event
\* carries average_anom_score, whatever its value, 0 included.
C8_ScoreLineIffPresent ==
    (Responded /\ WellFormed /\ run.rendered)
        => (Contains(run.message, start_lit_6)
            <=> body.data.average_anom_score.k # "absent")

\* C9: the end template is rendered with a duration that _process_anomaly
\* supplied: the duration field of an end message is never empty.
C9_DurationNeverEmpty ==
    (Responded /\ WellFormed /\ run.rendered /\ body.data.action = Str(END)
     /\ body.data.start_time.k = "str" /\ body.data.end_time.k = "str")
        => ~Contains(run.message, end_lit_5 \o <<10>>)

\* C10: the outbound session is closed only once the site accepts no more
\* requests and no request is still on its way to its dispatch.
C10_SessionClosedLast ==
    http_session = "closed" => (site # "listening" /\ req_pc # "reading")

=============================================================================
